---- MODULE Spec2Model ----
(***************************************************************************)
(* Input core of the LilyGo T-Embed MicroPython UI:                        *)
(*   RotaryEncoder, ButtonManager, AdvancedButtonManager                   *)
(*   (src/lib/configs/tft_buttons.py), Screen (src/core/display/screen.py) *)
(*   and the UIComponent widgets (src/core/display/components.py).         *)
(*                                                                         *)
(* Two execution contexts share the objects' fields: the pin interrupt     *)
(* handlers (encoder_handler, button_handler, _button_handler), which      *)
(* MicroPython runs to completion between two bytecodes of the main        *)
(* program, and the polling code (update, get_rotation, get_button,        *)
(* get_events).  A handler is therefore one atomic action; a polled method *)
(* is split at the points where a handler can run between two of its       *)
(* accesses to a shared field.  SpecEnc and SpecBtn let the handlers run   *)
(* at every such point, SpecDeb does so for get_button; SpecLog, SpecBnc, *)
(* SpecUpd, SpecReg and SpecScr follow longer runs with the handlers       *)
(* running between two calls of the polled method.  SpecFoc and SpecList   *)
(* follow the shell's focus and a ListView with no handler involved.       *)
(*                                                                         *)
(* Variables marked "history" are not fields of the program: they record   *)
(* what has happened (which edge recorded which entry, what was returned,  *)
(* which callback was invoked) so that the properties can be stated.  No   *)
(* action's guard or program variable depends on them.                     *)
(***************************************************************************)
EXTENDS Integers, Sequences, FiniteSets

VARIABLES
    now,                  \* time.ticks_ms() as last read by a handler
    \* ---- RotaryEncoder ----
    pin_a,                \* level of encoder phase A
    pin_b,                \* level of encoder phase B
    last_a_state,         \* self.last_a_state
    counter,              \* self.counter
    last_interrupt_time,  \* self.last_interrupt_time
    gr_pc,                \* position inside get_rotation: "idle" | "reset"
    gr_value,             \* get_rotation's local `value`
    applied,              \* history: net sum of the +1/-1 applied by encoder_handler
    returned,             \* history: sum of the values returned by get_rotation
    n_a_edges,            \* history: phase-A edges so far
    acc_edges,            \* history: phase-A edges accepted since the last counter reset
    cnt_edges,            \* history: of these, the edges that changed the counter
    b_zero,               \* history: phase B was at 0 ever since the last counter reset
    ab_diff,              \* history: at each counted edge since the reset, B differed from A
    burst_t0,             \* history: time of the first edge of the current burst
    burst_n,              \* history: edges of the current burst (all within 1 ms of burst_t0)
    burst_c0,             \* history: the counter before the burst
    burst_ok,             \* history: the burst's first edge passed the debounce test
    burst_lvl,            \* history: the burst's first edge read a level other than last_a_state
    burst_acc,            \* history: edges of the burst that passed the debounce test
    burst_clean,          \* history: no counter reset since the burst began
    edge_t,               \* history: time of the last phase-A edge that passed the debounce test
    \* ---- ButtonManager ----
    pin_btn,              \* level of each button pin (1 released, 0 pressed)
    press_events,         \* self.press_events, index 1 = list index 0 (newest)
    ge_pc,                \* position inside get_events: "idle" | "loop" | "store"
    ge_alias,             \* the list being iterated is still the object self.press_events
    ge_iter,              \* the iterated list object once self.press_events was rebound
    ge_idx,               \* the list iterator's index (entries already visited)
    ge_events,            \* get_events' local `events`
    ge_new_events,        \* get_events' local `new_events`
    ge_result,            \* the list returned by the last completed get_events
    n_edges,              \* history: button edges handled so far (ids of the entries)
    last_start,           \* history: per button, id and time of its last falling edge
    matched,              \* history: ids of the press_start entries a release has matched
    overlap,              \* history: per button, its current press overlapped another's
    delivered,            \* history: ids of all events returned by get_events, in order
    ge_entry,             \* history: self.press_events when the running get_events began
    ge_irq,               \* history: a handler ran during the running/last get_events
    quiet,                \* history: no edge since the last get_events completed
    n_polls,              \* history: get_events calls begun so far
    \* ---- encoder button, AdvancedButtonManager ----
    irq_mode,             \* handlers the encoder-button pin runs: "both" | "last"
    button_pressed,       \* RotaryEncoder.button_pressed
    button_callbacks,     \* self.button_callbacks
    encoder_callbacks,    \* self.encoder_callbacks
    reg_call,             \* the last set_*_callback call: arguments and outcome
    n_regs,               \* history: set_*_callback calls so far
    upd_pc,               \* position inside update()
    upd_raised,           \* update() ended with an exception
    fired,                \* history: the callback invocations so far, in order
    enc_seen,             \* history: id of the last press button_handler has run for
    flag_src,             \* history: id of the press that set button_pressed
    gb,                   \* get_button: its position, and the history of its returns
    \* ---- Screen, UIComponent ----
    screen_made,          \* Screen() has been constructed
    ui_counter,           \* UIComponent._counter
    widgets,              \* the components created so far, by uid
    components,           \* Screen._components, as the list of their uids
    focused_component,    \* self.focused_component (NoComponent for None)
    focus_counter,        \* Screen.focus_counter
    display,              \* what the display shows of each component
    redrawn,              \* update() calls whose Screen.update has finished
    n_ops,                \* history: constructor, add_component, set_focus, draw calls
    shell_op,             \* history: the last of these calls and its argument
    last_cycle,           \* history: the last handle_user_button call
    forwarded,            \* history: the handle_* calls made on components
    drawn,                \* history: the components the last Screen.draw drew
    n_draws,              \* history: Screen.draw calls so far
    after_draw,           \* history: the state the last Screen.draw left
    repeats,              \* history: Screen.draw calls begun in that very state
    slept,                \* history: ms update() has spent in time.sleep_ms
    lv                    \* a ListView: its fields, and the history of its last call

encHist == <<n_a_edges, acc_edges, cnt_edges, b_zero, ab_diff,
             burst_t0, burst_n, burst_c0, burst_ok, burst_lvl, burst_acc,
             burst_clean, edge_t>>
encVars == <<pin_a, pin_b, last_a_state, counter, last_interrupt_time,
             gr_pc, gr_value, applied, returned, encHist>>
geVars  == <<ge_pc, ge_alias, ge_iter, ge_idx, ge_events, ge_new_events,
             ge_result, delivered, ge_entry, ge_irq, quiet, n_polls>>
btnVars == <<pin_btn, press_events, n_edges, last_start, matched, overlap>>
scrHist == <<n_ops, shell_op, last_cycle, forwarded, drawn, n_draws,
             after_draw, repeats, slept>>
scrVars == <<screen_made, ui_counter, widgets, components, focused_component,
             focus_counter, display, redrawn, scrHist, lv>>
updVars == <<irq_mode, button_pressed, button_callbacks, encoder_callbacks,
             reg_call, n_regs, upd_raised, fired, enc_seen, flag_src, gb, scrVars>>
vars    == <<now, encVars, geVars, btnVars, updVars, upd_pc>>

-----------------------------------------------------------------------------
(* Program constants *)

ENCODER_DEBOUNCE_MS == 2
LONG_PRESS_TIME == 2000
BUTTON_DEBOUNCE_MS == 200
LOG_CAPACITY == 5

Buttons == {"encoder", "user", "power"}

(* Bounds of the model *)

MaxEncTime == 8       \* SpecEnc: the clock value at which a run is cut
MaxEncEdges == 12     \* SpecEnc: phase-A edges in one run
MaxEdges == 4         \* SpecBtn: button edges handled in one run
MaxTime == 4500       \* SpecBtn: the clock value at which a run is cut
MaxLogEdges == 7      \* SpecLog: button edges handled in one run
MaxPolls == 2         \* SpecBtn, SpecLog: get_events calls in one run
MaxUpdEdges == 4      \* SpecUpd: button and phase-A edges in one run
MaxUpdPolls == 2      \* SpecUpd: update() calls in one run
MaxSetup == 2         \* SpecUpd: set_*_callback calls before the first edge
MaxRegs == 2          \* SpecReg: set_*_callback calls in one run
MaxRegEdges == 2      \* SpecReg: button and phase-A edges in one run
MaxRegPolls == 2      \* SpecReg: update() calls in one run
MaxBncEdges == 5      \* SpecBnc: button edges handled in one run
MaxDebEdges == 5      \* SpecDeb: encoder-button and phase-A edges in one run
MaxDebPolls == 3      \* SpecDeb: get_button calls in one run
MaxWidgets == 2       \* SpecScr: components created in one run
MaxItems == 4         \* SpecList: items of the ListView
MaxRows == 3          \* SpecList: rows the ListView's height has room for
MaxSteps == 3         \* SpecList: steps of one handle_encoder_rotation call
MaxListCalls == 4     \* SpecList: handle_encoder_rotation calls in one run
MaxFocWidgets == 3    \* SpecFoc: components created in one run
MaxFocOps == 4        \* SpecFoc: add_component, set_focus and handle_user_button calls in one run
MaxListLen == 2       \* SpecFoc: length of a list given to add_component
MaxScrInputs == 8     \* SpecScr: calls on the shell, edges and Screen.update calls in one run

EncoderSteps == {0, 1, 2}     \* SpecEnc: ms between two phase-A edges
ButtonSteps == {500, 2000}    \* SpecBtn: ms between two button edges
LogSteps == {500}
UpdSteps == {500}             \* SpecUpd, SpecReg: ms from the previous edge to a press or phase-A edge
HoldSteps == {500, 3000}      \* SpecUpd: ms from the previous edge to a release
SetupButtons == {<<"encoder", "short">>, <<"power", "short">>, <<"power", "long">>}
                              \* SpecUpd: the keys registered before the first edge
SetupDirections == {"clockwise"}
UpdButtons == {"encoder", "power"}   \* SpecUpd: the buttons that are pressed
Clears == {FALSE}                    \* SpecScr: Screen.draw's argument
DebSteps == {1, 150, 250}            \* SpecDeb: ms between two edges of the encoder's pins
BncButtons == {"user", "power"}      \* SpecBnc: the buttons that are pressed
None == "None"                \* Python's None in a callback table
Callbacks == {"f", "g"}       \* the functions a caller registers
ButtonNames == {"power", "menu"}                     \* set_button_callback's button_name
PressTypes == {"short", "long", "double"}           \* set_button_callback's press_type
Directions == {"clockwise", "counterclockwise", "up"} \* set_encoder_callback's direction
Abs(n) == IF n < 0 THEN -n ELSE n             \* SpecLog: ms between two button edges

Min(a, b) == IF a < b THEN a ELSE b

\* time.ticks_diff(a, b); the 2^30 wrap of ticks_ms lies beyond every bound here
ticks_diff(a, b) == a - b

-----------------------------------------------------------------------------
(* RotaryEncoder *)

\* Variant of Direction: every counted edge is a clockwise step.
DirectionAllClockwise(a_state, b_state) == 1

\* Variant of Direction: only a rising edge with B low is a clockwise step.
DirectionRisingOnly(a_state, b_state) ==
    IF a_state = 1 /\ b_state = 0 THEN 1 ELSE -1

\* Variant of Direction: a counted edge moves the counter by two.
DirectionDouble(a_state, b_state) ==
    IF (a_state = 1 /\ b_state = 0) \/ (a_state = 0 /\ b_state = 1) THEN 2 ELSE -2

\* encoder_handler's quadrature rule for an accepted change of phase A
Direction(a_state, b_state) ==
    IF (a_state = 1 /\ b_state = 0) \/ (a_state = 0 /\ b_state = 1) THEN 1 ELSE -1

\* Variant of Accepted: no debounce test, every edge is processed.
AcceptedAlways(t) == TRUE

\* encoder_handler's debounce test: the edge at time t is processed
Accepted(t) == ~(ticks_diff(t, last_interrupt_time) < ENCODER_DEBOUNCE_MS)

\* A transition of phase A: the pin toggles and encoder_handler(pin_a) runs.
PhaseAEdge(dt) ==
    /\ now' = now + dt
    /\ pin_a' = 1 - pin_a
    /\ n_a_edges' = n_a_edges + 1
    /\ IF ~Accepted(now + dt)
       THEN UNCHANGED <<last_interrupt_time, counter, last_a_state, applied,
                        acc_edges, cnt_edges, ab_diff, edge_t>>
       ELSE /\ last_interrupt_time' = now + dt
            /\ edge_t' = now + dt
            /\ acc_edges' = acc_edges + 1
            /\ IF (1 - pin_a) # last_a_state
               THEN /\ counter' = counter + Direction(1 - pin_a, pin_b)
                    /\ applied' = applied + Direction(1 - pin_a, pin_b)
                    /\ last_a_state' = 1 - pin_a
                    /\ cnt_edges' = cnt_edges + 1
                    /\ ab_diff' = (ab_diff /\ (1 - pin_a) # pin_b)
               ELSE UNCHANGED <<counter, last_a_state, applied, cnt_edges, ab_diff>>
    /\ IF burst_n > 0 /\ now + dt - burst_t0 <= 1
       THEN /\ burst_n' = burst_n + 1
            /\ burst_acc' = burst_acc + (IF Accepted(now + dt) THEN 1 ELSE 0)
            /\ UNCHANGED <<burst_t0, burst_c0, burst_ok, burst_lvl, burst_clean>>
       ELSE /\ burst_n' = 1
            /\ burst_t0' = now + dt
            /\ burst_c0' = counter
            /\ burst_ok' = Accepted(now + dt)
            /\ burst_lvl' = ((1 - pin_a) # last_a_state)
            /\ burst_acc' = (IF Accepted(now + dt) THEN 1 ELSE 0)
            /\ burst_clean' = TRUE
    /\ UNCHANGED <<pin_b, gr_pc, gr_value, returned, b_zero, geVars, btnVars,
                   updVars>>

\* A transition of phase B: no handler is registered for it.
PhaseBEdge ==
    /\ pin_b' = 1 - pin_b
    /\ b_zero' = FALSE
    /\ UNCHANGED <<now, pin_a, last_a_state, counter, last_interrupt_time,
                   gr_pc, gr_value, applied, returned, n_a_edges, acc_edges,
                   cnt_edges, ab_diff, burst_t0, burst_n, burst_c0, burst_ok,
                   burst_lvl, burst_acc, burst_clean, edge_t, geVars, btnVars,
                   updVars>>

\* get_rotation, first statement: value = self.counter
GetRotationRead ==
    /\ gr_pc = "idle"
    /\ gr_value' = counter
    /\ gr_pc' = "reset"
    /\ UNCHANGED <<now, pin_a, pin_b, last_a_state, counter, last_interrupt_time,
                   applied, returned, encHist, geVars, btnVars,
                   updVars>>

\* get_rotation, second statement and return: self.counter = 0; return value
GetRotationReset ==
    /\ gr_pc = "reset"
    /\ counter' = 0
    /\ returned' = returned + gr_value
    /\ gr_pc' = "idle"
    /\ acc_edges' = 0 /\ cnt_edges' = 0
    /\ b_zero' = (pin_b = 0)
    /\ ab_diff' = TRUE
    /\ burst_clean' = FALSE
    /\ UNCHANGED <<now, pin_a, pin_b, last_a_state, last_interrupt_time,
                   gr_value, applied, n_a_edges, burst_t0, burst_n, burst_c0,
                   burst_ok, burst_lvl, burst_acc, edge_t, geVars, btnVars,
                   updVars>>

-----------------------------------------------------------------------------
(* ButtonManager *)

IsEnd(e) == e.type = "press_end"
IsStart(e) == e.type = "press_start"

\* self.press_events[1:5]
EvictSlice(log) == SubSeq(log, 2, Min(LOG_CAPACITY, Len(log)))

\* The rising-edge loop: index of the first press_start of `name`, 0 if none.
FindPressStart(log, name) ==
    LET hits == {i \in 1..Len(log) : IsStart(log[i]) /\ log[i].name = name}
    IN  IF hits = {} THEN 0 ELSE CHOOSE i \in hits : \A j \in hits : i <= j

\* Mutant of Classify: the threshold compared with > instead of >=
ClassifyStrict(d) == IF d > LONG_PRESS_TIME THEN "long_press" ELSE "short_press"

\* get_events' classification of a press_end entry
Classify(d) == IF d >= LONG_PRESS_TIME THEN "long_press" ELSE "short_press"

EventOf(e) == [type |-> Classify(e.val), name |-> e.name, val |-> e.val,
               id |-> e.id, src |-> e.src]

Held(b) == pin_btn[b] = 0

\* Falling edge of button b: _button_handler(pin, b) with pin.value() = 0.
ButtonPress(b, dt) ==
    /\ pin_btn[b] = 1
    /\ now' = now + dt
    /\ n_edges' = n_edges + 1
    /\ pin_btn' = [pin_btn EXCEPT ![b] = 0]
    /\ LET rebound == Len(press_events) >= LOG_CAPACITY
           kept == IF rebound THEN EvictSlice(press_events) ELSE press_events
           entry == [type |-> "press_start", name |-> b, val |-> now + dt,
                     id |-> n_edges + 1, src |-> n_edges + 1]
       IN  /\ press_events' = <<entry>> \o kept
           /\ IF ge_pc = "loop" /\ ge_alias /\ rebound
              THEN ge_alias' = FALSE /\ ge_iter' = press_events
              ELSE UNCHANGED <<ge_alias, ge_iter>>
    /\ last_start' = [last_start EXCEPT ![b] = [id |-> n_edges + 1, t |-> now + dt]]
    /\ overlap' = [c \in Buttons |->
                     IF c = b THEN \E o \in Buttons \ {b} : Held(o)
                     ELSE overlap[c] \/ Held(c)]
    /\ ge_irq' = (ge_irq \/ ge_pc # "idle")
    /\ quiet' = FALSE
    /\ UNCHANGED <<encVars, matched, ge_pc, ge_idx, ge_events, ge_new_events,
                   ge_result, delivered, ge_entry, n_polls,
                   updVars>>

\* Rising edge of button b: _button_handler(pin, b) with pin.value() = 1.
ButtonRelease(b, dt) ==
    /\ pin_btn[b] = 0
    /\ now' = now + dt
    /\ n_edges' = n_edges + 1
    /\ pin_btn' = [pin_btn EXCEPT ![b] = 1]
    /\ LET i == FindPressStart(press_events, b)
       IN  IF i = 0
           THEN UNCHANGED <<press_events, matched>>
           ELSE /\ press_events' =
                      <<[type |-> "press_end", name |-> b,
                         val |-> ticks_diff(now + dt, press_events[i].val),
                         id |-> n_edges + 1, src |-> press_events[i].id]>>
                      \o press_events
                /\ matched' = matched \cup {press_events[i].id}
    /\ ge_irq' = (ge_irq \/ ge_pc # "idle")
    /\ quiet' = FALSE
    /\ UNCHANGED <<encVars, last_start, overlap, ge_pc, ge_alias, ge_iter, ge_idx,
                   ge_events, ge_new_events, ge_result, delivered, ge_entry, n_polls,
                   updVars>>

\* A contact bounce on a released button b: the pin's handler runs once more
\* and reads pin.value() = 1, the level it had before: _button_handler(pin, b)
\* takes the rising-edge branch again.
ButtonReleaseAgain(b, dt) ==
    /\ pin_btn[b] = 1
    /\ last_start[b].id # 0
    /\ now' = now + dt
    /\ n_edges' = n_edges + 1
    /\ LET i == FindPressStart(press_events, b)
       IN  IF i = 0
           THEN UNCHANGED <<press_events, matched>>
           ELSE /\ press_events' =
                      <<[type |-> "press_end", name |-> b,
                         val |-> ticks_diff(now + dt, press_events[i].val),
                         id |-> n_edges + 1, src |-> press_events[i].id]>>
                      \o press_events
                /\ matched' = matched \cup {press_events[i].id}
    /\ ge_irq' = (ge_irq \/ ge_pc # "idle")
    /\ quiet' = FALSE
    /\ UNCHANGED <<encVars, pin_btn, last_start, overlap, ge_pc, ge_alias, ge_iter,
                   ge_idx, ge_events, ge_new_events, ge_result, delivered, ge_entry,
                   n_polls, updVars>>

\* The list object get_events' for statement iterates
IterList == IF ge_alias THEN press_events ELSE ge_iter

\* get_events up to the creation of the list iterator
GetEventsBegin ==
    /\ ge_pc = "idle"
    /\ n_polls' = n_polls + 1
    /\ ge_pc' = "loop"
    /\ ge_events' = <<>>
    /\ ge_new_events' = <<>>
    /\ ge_alias' = TRUE
    /\ ge_iter' = <<>>
    /\ ge_idx' = 0
    /\ ge_entry' = press_events
    /\ ge_irq' = FALSE
    /\ UNCHANGED <<now, encVars, btnVars, ge_result, delivered, quiet,
                   updVars>>

\* One pass of the for statement: the iterator yields the entry at its index,
\* or finds the list exhausted.
GetEventsStep ==
    /\ ge_pc = "loop"
    /\ IF ge_idx < Len(IterList)
       THEN /\ ge_idx' = ge_idx + 1
            /\ IF IsEnd(IterList[ge_idx + 1])
               THEN /\ ge_events' = Append(ge_events, EventOf(IterList[ge_idx + 1]))
                    /\ UNCHANGED ge_new_events
               ELSE /\ ge_new_events' = Append(ge_new_events, IterList[ge_idx + 1])
                    /\ UNCHANGED ge_events
            /\ UNCHANGED ge_pc
       ELSE /\ ge_pc' = "store"
            /\ UNCHANGED <<ge_idx, ge_events, ge_new_events>>
    /\ UNCHANGED <<now, encVars, btnVars, ge_alias, ge_iter, ge_result, delivered,
                   ge_entry, ge_irq, quiet, n_polls,
                   updVars>>

\* Mutant of GetEventsStore: the log is not replaced by new_events
GetEventsStoreKeepLog ==
    /\ ge_pc = "store"
    /\ ge_result' = ge_events
    /\ delivered' = delivered \o [i \in 1..Len(ge_events) |-> ge_events[i].id]
    /\ ge_pc' = "idle"
    /\ quiet' = TRUE
    /\ ge_alias' = FALSE /\ ge_iter' = <<>> /\ ge_idx' = 0
    /\ ge_events' = <<>> /\ ge_new_events' = <<>> /\ ge_entry' = <<>>
    /\ UNCHANGED <<now, encVars, btnVars, ge_irq, n_polls,
                   updVars>>

\* self.press_events = new_events; return events
GetEventsStore ==
    /\ ge_pc = "store"
    /\ press_events' = ge_new_events
    /\ ge_result' = ge_events
    /\ delivered' = delivered \o [i \in 1..Len(ge_events) |-> ge_events[i].id]
    /\ ge_pc' = "idle"
    /\ quiet' = TRUE
    /\ ge_alias' = FALSE /\ ge_iter' = <<>> /\ ge_idx' = 0
    /\ ge_events' = <<>> /\ ge_new_events' = <<>> /\ ge_entry' = <<>>
    /\ UNCHANGED <<now, encVars, pin_btn, n_edges, last_start, matched, overlap,
                   ge_irq, n_polls,
                   updVars>>

-----------------------------------------------------------------------------
(* The encoder button: RotaryEncoder.button_handler and get_button *)

\* The encoder button's pin is given a handler twice: ButtonManager.__init__
\* registers _button_handler for both edges, RotaryEncoder.__init__ registers
\* button_handler for the falling edge.  Whether the pin then runs both
\* handlers or only the one registered last is decided by the port's
\* machine.Pin, not by this repository: irq_mode is either, fixed at start.
\* With "both" a falling edge is ButtonPress("encoder") followed at once by
\* EncoderButtonHandler; with "last" the edges are the two actions below.

\* The falling edge has been taken but button_handler has not run for it yet.
EncPending == last_start["encoder"].id # enc_seen

\* irq_mode "last": a falling edge of the encoder button, unseen by ButtonManager
EncoderPinFall(dt) ==
    /\ irq_mode = "last"
    /\ pin_btn["encoder"] = 1
    /\ now' = now + dt
    /\ n_edges' = n_edges + 1
    /\ pin_btn' = [pin_btn EXCEPT !["encoder"] = 0]
    /\ last_start' = [last_start EXCEPT
                        !["encoder"] = [id |-> n_edges + 1, t |-> now + dt]]
    /\ UNCHANGED <<encVars, geVars, press_events, matched, overlap, updVars, upd_pc>>

\* irq_mode "last": a rising edge of the encoder button, which no handler sees
EncoderPinRise(dt) ==
    /\ irq_mode = "last"
    /\ pin_btn["encoder"] = 0
    /\ now' = now + dt
    /\ n_edges' = n_edges + 1
    /\ pin_btn' = [pin_btn EXCEPT !["encoder"] = 1]
    /\ UNCHANGED <<encVars, geVars, press_events, last_start, matched, overlap,
                   updVars, upd_pc>>

\* RotaryEncoder.button_handler, run for the falling edge just taken
EncoderButtonHandler ==
    /\ EncPending
    /\ enc_seen' = last_start["encoder"].id
    /\ IF ticks_diff(now, last_interrupt_time) > BUTTON_DEBOUNCE_MS
       THEN /\ button_pressed' = TRUE
            /\ last_interrupt_time' = now
            /\ flag_src' = last_start["encoder"].id
            /\ gb' = [gb EXCEPT !.since = @ + 1, !.press_t = now]
       ELSE UNCHANGED <<button_pressed, last_interrupt_time, flag_src, gb>>
    /\ UNCHANGED <<now, pin_a, pin_b, last_a_state, counter, gr_pc, gr_value,
                   applied, returned, encHist, geVars, btnVars, irq_mode,
                   button_callbacks, encoder_callbacks, reg_call, n_regs,
                   upd_raised, fired, scrVars, upd_pc>>

\* get_button's frame
gbFrame == <<now, encVars, geVars, btnVars, irq_mode, button_callbacks,
             encoder_callbacks, reg_call, n_regs, upd_raised, fired, enc_seen,
             flag_src, scrVars, upd_pc>>

\* What get_button's return adds to the history of its returns
Returned(value) ==
    [gb EXCEPT !.pc = "idle", !.n = @ + 1,
               !.prev = [value |-> gb.value, covered |-> gb.covered],
               !.value = value, !.covered = gb.since, !.since = 0]

\* get_button: the test of self.button_pressed, and `return False`
GetButtonTest ==
    /\ gb.pc = "idle"
    /\ IF button_pressed
       THEN gb' = [gb EXCEPT !.pc = "clear"]
       ELSE gb' = Returned(FALSE)
    /\ UNCHANGED <<button_pressed, gbFrame>>

\* Variant of GetButtonClear: the flag is left set.
GetButtonClearKeepFlag ==
    /\ gb.pc = "clear"
    /\ gb' = Returned(TRUE)
    /\ UNCHANGED <<button_pressed, gbFrame>>

\* get_button: self.button_pressed = False; return True
GetButtonClear ==
    /\ gb.pc = "clear"
    /\ button_pressed' = FALSE
    /\ gb' = Returned(TRUE)
    /\ UNCHANGED gbFrame

-----------------------------------------------------------------------------
(* UIComponent, Button, TextInput *)

\* None where a component is expected
NoComponent == 0

\* A list object where a component is expected
ListObject == -1

\* x is a component (a uid), not None and not a list
IsComponent(x) == x > 0

\* The widget classes a component is created from.  ListView differs from
\* these two only in handle_encoder_rotation and in its callback.
WidgetKinds == {"Button", "TextInput"}

\* TextInput.draw: the cursor toggles when more than this many ms have passed
CURSOR_BLINK_MS == 500

\* Button.handle_button_press: time.sleep_ms(200)
BUTTON_FEEDBACK_MS == 200

\* What the display shows of a component that has not been drawn
Blank == [border |-> "none", cursor |-> FALSE]

\* UIComponent.__init__ followed by the subclass's __init__ (the TextInput
\* is created with placeholder="")
NewWidget(kind) ==
    [kind |-> kind, visible |-> TRUE, dirty |-> TRUE, focused |-> TRUE,
     pressed |-> FALSE, text |-> "", placeholder |-> "",
     cursor_visible |-> TRUE, cursor_blink_time |-> 0]

\* UIComponent.set_focus(focused)
SetFocused(w, focused) ==
    IF w.focused # focused
    THEN [w EXCEPT !.focused = focused, !.dirty = TRUE, !.visible = TRUE]
    ELSE w

\* TextInput.draw: the cursor is handled (focused, and text or no placeholder)
HasCursor(w) == w.focused /\ (w.text # "" \/ w.placeholder = "")

\* Variant of BlinkDue: the cursor toggles at every draw.
BlinkDueAlways(w, t) == HasCursor(w)

\* TextInput.draw: the cursor's blink state is due to toggle at time t
BlinkDue(w, t) == HasCursor(w) /\ ticks_diff(t, w.cursor_blink_time) > CURSOR_BLINK_MS

\* Button.draw, TextInput.draw: the component after its draw() at time t
AfterDraw(w, t) ==
    IF w.kind = "TextInput" /\ BlinkDue(w, t)
    THEN [w EXCEPT !.cursor_visible = ~w.cursor_visible,
                   !.cursor_blink_time = t, !.dirty = FALSE]
    ELSE [w EXCEPT !.dirty = FALSE]

\* Button.draw, TextInput.draw: what draw() at time t puts on the display
Shows(w, t) ==
    IF w.kind = "Button"
    THEN [border |-> IF w.pressed THEN "press_color"
                     ELSE IF w.focused THEN "focus_color" ELSE "border_color",
          cursor |-> FALSE]
    ELSE [border |-> IF w.focused THEN "focus_border" ELSE "border_color",
          cursor |-> HasCursor(w) /\ AfterDraw(w, t).cursor_visible]

\* component.draw() for the component with uid c; S is the shell's state
ComponentDraw(S, c) ==
    IF ~S.widgets[c].visible
    THEN S
    ELSE [S EXCEPT !.widgets[c] = AfterDraw(S.widgets[c], S.now),
                   !.display[c] = Shows(S.widgets[c], S.now)]

\* Button.handle_button_press(button_name, press_type); self.callback() is
\* the application's function and touches nothing of the shell
ButtonHandleButtonPress(S, c, button_name, press_type) ==
    IF button_name = "encoder" /\ press_type = "short"
    THEN LET S1 == [S EXCEPT !.widgets[c].pressed = TRUE,
                             !.widgets[c].dirty = TRUE]
             S2 == ComponentDraw(S1, c)
             S3 == [S2 EXCEPT !.now = @ + BUTTON_FEEDBACK_MS,
                              !.slept = @ + BUTTON_FEEDBACK_MS]
         IN  [S3 EXCEPT !.widgets[c].pressed = FALSE,
                        !.widgets[c].dirty = TRUE]
    ELSE S

\* c.handle_button_press(button_name, press_type), by the class of c
HandleButtonPress(S, c, button_name, press_type) ==
    LET T == [S EXCEPT !.forwarded =
                 Append(@, [to |-> c, method |-> "handle_button_press",
                            a |-> button_name, b |-> press_type])]
    IN  IF S.widgets[c].kind = "Button"
        THEN ButtonHandleButtonPress(T, c, button_name, press_type)
        ELSE T

\* c.handle_encoder_rotation(direction, steps): UIComponent's, which passes
HandleEncoderRotation(S, c, direction, steps) ==
    [S EXCEPT !.forwarded =
        Append(@, [to |-> c, method |-> "handle_encoder_rotation",
                   a |-> direction, b |-> "steps"])]

-----------------------------------------------------------------------------
(* ListView *)

Max(a, b) == IF a > b THEN a ELSE b

\* Variant of Select: the selection is not held at the ends of the list.
SelectUnbounded(selected_index, direction, steps, len) ==
    IF direction = "clockwise" THEN selected_index + steps
    ELSE selected_index - steps

\* ListView.handle_encoder_rotation: the new selected_index in a list of len items
Select(selected_index, direction, steps, len) ==
    IF direction = "clockwise" THEN Min(selected_index + steps, len - 1)
    ELSE Max(selected_index - steps, 0)

\* ListView.handle_encoder_rotation: the new scroll_offset
Scroll(selected_index, scroll_offset, visible_items) ==
    IF selected_index < scroll_offset THEN selected_index
    ELSE IF selected_index >= scroll_offset + visible_items
    THEN selected_index - visible_items + 1
    ELSE scroll_offset

\* ListView.handle_encoder_rotation(direction, steps) on the ListView l
ListViewRotation(l, direction, steps) ==
    IF l.items = 0 THEN l
    ELSE LET sel == Select(l.selected_index, direction, steps, l.items)
         IN  [l EXCEPT !.selected_index = sel,
                       !.scroll_offset = Scroll(sel, l.scroll_offset, l.visible_items),
                       !.dirty = IF l.selected_index # sel THEN TRUE ELSE @]

\* What is not the ListView's
listFrame == <<now, encVars, geVars, btnVars, irq_mode, button_pressed,
               button_callbacks, encoder_callbacks, reg_call, n_regs, upd_raised,
               fired, enc_seen, flag_src, gb, screen_made, ui_counter, widgets,
               components, focused_component, focus_counter, display, redrawn,
               scrHist, upd_pc>>

\* ListView(items=[...] of len items, height with room for rows rows):
\* UIComponent.__init__ sets dirty, ListView.__init__ the rest
ListViewNew(len, rows) ==
    /\ ~lv.made
    /\ lv' = [made |-> TRUE, items |-> len, visible_items |-> rows,
              selected_index |-> 0, scroll_offset |-> 0, dirty |-> TRUE,
              calls |-> 0, old_selected |-> 0, old_dirty |-> TRUE]
    /\ UNCHANGED listFrame

\* ListView.draw() of the visible ListView
ListViewDraw ==
    /\ lv.made
    /\ lv' = [lv EXCEPT !.dirty = FALSE]
    /\ UNCHANGED listFrame

\* handle_encoder_rotation(direction, steps) is called on the ListView
ListViewRotate(direction, steps) ==
    /\ lv.made
    /\ lv' = [ListViewRotation(lv, direction, steps) EXCEPT
                 !.calls = @ + 1,
                 !.old_selected = lv.selected_index,
                 !.old_dirty = lv.dirty]
    /\ UNCHANGED listFrame

-----------------------------------------------------------------------------
(* Screen *)

\* The fields the shell's methods and the components' methods work on,
\* with the clock they read.
Shell ==
    [now |-> now, widgets |-> widgets, components |-> components,
     focused_component |-> focused_component, focus_counter |-> focus_counter,
     display |-> display, forwarded |-> forwarded, last_cycle |-> last_cycle,
     drawn |-> drawn, slept |-> slept]

\* The state S becomes the shell's state.
ShellBecomes(S) ==
    /\ now' = S.now
    /\ widgets' = S.widgets
    /\ focused_component' = S.focused_component
    /\ focus_counter' = S.focus_counter
    /\ display' = S.display
    /\ forwarded' = S.forwarded
    /\ last_cycle' = S.last_cycle
    /\ drawn' = S.drawn
    /\ slept' = S.slept

Uids(cs) == {cs[i] : i \in 1..Len(cs)}

\* Every element of the collection has the attributes of a component
AllComponents(S) == \A i \in 1..Len(S.components) : IsComponent(S.components[i])

MaxOf(ids) == CHOOSE m \in ids : \A i \in ids : i <= m

\* Screen.focus_cycle(max): the new focus_counter
FocusCycle(c, max) == (IF c >= max THEN 0 ELSE c) + 1

\* Screen.get_focused_component()
GetFocusedComponent(S) ==
    LET flagged == {i \in 1..Len(S.components) : S.widgets[S.components[i]].focused}
    IN  IF flagged = {} THEN NoComponent
        ELSE S.components[CHOOSE i \in flagged : \A j \in flagged : i <= j]

\* Screen.set_focus(component)
ShellSetFocus(S, c) ==
    LET S1 == IF S.focused_component # NoComponent
              THEN [S EXCEPT !.widgets[S.focused_component] = SetFocused(@, FALSE)]
              ELSE S
        S2 == [S1 EXCEPT !.focused_component = c]
    IN  IF c # NoComponent
        THEN [S2 EXCEPT !.widgets[c] = SetFocused(@, TRUE)]
        ELSE S2

\* Variant of CycleFocus: the focused component is unfocused before the next
\* one is looked up.
CycleFocusEager(S) ==
    LET focused == GetFocusedComponent(S)
        ids == Uids(S.components)
    IN  IF ids = {} \/ focused = NoComponent
        THEN S
        ELSE LET S1 == [S EXCEPT !.focus_counter = FocusCycle(@, MaxOf(ids)),
                                 !.widgets[focused] = SetFocused(@, FALSE)]
             IN  IF S1.focus_counter \notin ids
                 THEN S1
                 ELSE ShellSetFocus(S1, S1.focus_counter)

\* Screen.handle_user_button: the try block, left at the first exception
\* (max() of an empty list, .focused or .uid of an element that is no
\* component, pop() from an empty list, set_focus of None), which the except
\* clause prints
CycleFocus(S) ==
    LET focused == GetFocusedComponent(S)
        ids == Uids(S.components)
    IN  IF ids = {} \/ ~AllComponents(S)
        THEN S
        ELSE LET S1 == [S EXCEPT !.focus_counter = FocusCycle(@, MaxOf(ids))]
                 next_comp == S1.focus_counter
             IN  IF next_comp \notin ids
                 THEN S1
                 ELSE IF next_comp = focused
                 THEN S1
                 ELSE IF focused = NoComponent
                 THEN S1
                 ELSE ShellSetFocus(
                        [S1 EXCEPT !.widgets[focused] = SetFocused(@, FALSE)],
                        next_comp)

\* Which component the shell holds and which components are flagged focused
Focus(S) ==
    [held |-> S.focused_component,
     flags |-> {c \in 1..Len(S.widgets) : S.widgets[c].focused}]

\* Screen.handle_user_button, with the record of the call
HandleUserButton(S) ==
    LET T == CycleFocus(S)
        ids == Uids(S.components)
    IN  [T EXCEPT !.last_cycle =
           [n |-> S.last_cycle.n + 1,
            ids |-> ids,
            id |-> IF ids = {} \/ ~AllComponents(S) THEN NoComponent
                   ELSE FocusCycle(S.focus_counter, MaxOf(ids)),
            before |-> Focus(S),
            after |-> Focus(T)]]

\* Variant of HandleEncoderButton: the press goes to the first component.
HandleEncoderButtonFirst(S) ==
    IF S.components # <<>>
    THEN HandleButtonPress(S, S.components[1], "encoder", "short")
    ELSE S

\* Screen.handle_encoder_button
HandleEncoderButton(S) ==
    IF S.focused_component # NoComponent
    THEN HandleButtonPress(S, S.focused_component, "encoder", "short")
    ELSE S

\* Screen.handle_encoder_button_long
HandleEncoderButtonLong(S) ==
    IF S.focused_component # NoComponent
    THEN HandleButtonPress(S, S.focused_component, "encoder", "long")
    ELSE S

\* Screen.handle_encoder_clockwise(steps)
HandleEncoderClockwise(S, steps) ==
    IF S.focused_component # NoComponent
    THEN HandleEncoderRotation(S, S.focused_component, "clockwise", steps)
    ELSE S

\* Screen.handle_encoder_counterclockwise(steps)
HandleEncoderCounterclockwise(S, steps) ==
    IF S.focused_component # NoComponent
    THEN HandleEncoderRotation(S, S.focused_component, "counterclockwise", steps)
    ELSE S

\* The callbacks Screen.setup_input_handlers registers
ShellEncoderCallbacks ==
    [d \in {"clockwise", "counterclockwise"} |->
       IF d = "clockwise" THEN "handle_encoder_clockwise"
       ELSE "handle_encoder_counterclockwise"]

ShellButtonCallbacks ==
    [b \in Buttons |-> [k \in {"short", "long"} |->
       IF b = "encoder"
       THEN (IF k = "short" THEN "handle_encoder_button"
             ELSE "handle_encoder_button_long")
       ELSE IF b = "user"
       THEN (IF k = "short" THEN "handle_user_button"
             ELSE "handle_user_button_long")
       ELSE (IF k = "short" THEN "handle_power_button" ELSE None)]]

\* update() calls a callback: what the call does to the shell.  A callback
\* that is not a method of the shell is the application's function.
Callback(S, call) ==
    CASE call.cb = "handle_encoder_clockwise" ->
            HandleEncoderClockwise(S, call.arg)
      [] call.cb = "handle_encoder_counterclockwise" ->
            HandleEncoderCounterclockwise(S, call.arg)
      [] call.cb = "handle_encoder_button" -> HandleEncoderButton(S)
      [] call.cb = "handle_encoder_button_long" -> HandleEncoderButtonLong(S)
      [] call.cb = "handle_user_button" -> HandleUserButton(S)
      [] OTHER -> S

RECURSIVE RunCalls(_, _)
\* The calls of one update() step, in order
RunCalls(S, calls) ==
    IF calls = <<>> THEN S
    ELSE RunCalls(Callback(S, Head(calls)), Tail(calls))

\* update() makes the calls: their effect on the shell and on the clock
Invoke(calls) ==
    /\ ShellBecomes(RunCalls(Shell, calls))
    /\ UNCHANGED <<screen_made, ui_counter, components, redrawn, n_ops,
                   shell_op, n_draws, after_draw, repeats, lv>>

\* Variant of ToDraw: only a dirty component is drawn.
ToDrawDirtyOnly(w) == w.dirty

\* Screen.draw: the test a visited component is drawn under
ToDraw(w) == w.dirty \/ w.focused

RECURSIVE DrawAll(_, _)
\* Screen.draw: the loop over the components cs still to visit
DrawAll(S, cs) ==
    IF cs = <<>> THEN S
    ELSE LET c == Head(cs)
         IN  DrawAll(
               IF ToDraw(S.widgets[c])
               THEN [ComponentDraw(S, c) EXCEPT !.drawn = Append(@, c)]
               ELSE S,
               Tail(cs))

\* Screen.draw(clear): display.clear() first if asked (the title is not a
\* component and is left out)
Draw(S, clear) ==
    LET S0 == [S EXCEPT !.drawn = <<>>,
                        !.display = IF clear
                                    THEN [c \in 1..Len(S.display) |-> Blank]
                                    ELSE @]
    IN  DrawAll(S0, S0.components)

\* The state a Screen.draw leaves, kept to tell whether anything changed
\* before the next one
Snapshot(S) == [now |-> S.now, widgets |-> S.widgets,
                components |-> S.components]

\* A Screen.draw begins in the very state the previous one left.
Repeated == n_draws > 0 /\ after_draw = Snapshot(Shell)

\* The history of a Screen.draw call that leaves the state S
DrawRecorded(S) ==
    /\ after_draw' = Snapshot(S)
    /\ n_draws' = n_draws + 1
    /\ repeats' = IF Repeated THEN repeats + 1 ELSE repeats

routerFrame == <<encVars, geVars, btnVars, irq_mode, button_pressed, upd_raised,
                 fired, enc_seen, flag_src, gb, lv, upd_pc>>

\* Screen(): __init__ with setup_input_handlers, whose seven set_*_callback
\* calls fill both tables whatever order the dicts are walked in
ScreenNew ==
    /\ ~screen_made
    /\ upd_pc = "idle"
    /\ screen_made' = TRUE
    /\ focused_component' = NoComponent
    /\ encoder_callbacks' = ShellEncoderCallbacks
    /\ button_callbacks' =
          [b \in Buttons |-> [k \in {"short", "long"} |->
             IF ShellButtonCallbacks[b][k] # None
             THEN ShellButtonCallbacks[b][k] ELSE button_callbacks[b][k]]]
    /\ n_regs' = n_regs + 7
    /\ reg_call' = [fn |-> "button", a |-> "power", b |-> "short",
                    cb |-> "handle_power_button", raised |-> None]
    /\ n_ops' = n_ops + 1
    /\ shell_op' = [op |-> "Screen", c |-> NoComponent, clear |-> FALSE]
    /\ UNCHANGED <<now, routerFrame, ui_counter, widgets, components,
                   focus_counter, display, redrawn, last_cycle, forwarded,
                   drawn, n_draws, after_draw, repeats, slept>>

\* Button(...) or TextInput(...): a component is created
NewComponent(kind) ==
    /\ upd_pc = "idle"
    /\ ui_counter' = ui_counter + 1
    /\ widgets' = Append(widgets, NewWidget(kind))
    /\ display' = Append(display, Blank)
    /\ n_ops' = n_ops + 1
    /\ shell_op' = [op |-> "new", c |-> ui_counter + 1, clear |-> FALSE]
    /\ UNCHANGED <<now, routerFrame, button_callbacks, encoder_callbacks,
                   reg_call, n_regs, screen_made, components,
                   focused_component, focus_counter, redrawn, last_cycle,
                   forwarded, drawn, n_draws, after_draw, repeats, slept>>

\* screen.add_component(component), component not a list
AddComponent(c) ==
    /\ upd_pc = "idle"
    /\ screen_made
    /\ LET S1 == [Shell EXCEPT !.components = Append(@, c)]
       IN  /\ components' = S1.components
           /\ ShellBecomes(IF focused_component = NoComponent
                           THEN ShellSetFocus(S1, c) ELSE S1)
    /\ n_ops' = n_ops + 1
    /\ shell_op' = [op |-> "add_component", c |-> c, clear |-> FALSE]
    /\ UNCHANGED <<routerFrame, button_callbacks, encoder_callbacks, reg_call,
                   n_regs, screen_made, ui_counter, redrawn, n_draws,
                   after_draw, repeats>>

\* screen.add_component(component), component the list cs: after the branch
\* for a list, which returns only where nothing was focused, the list object
\* itself is appended
AddComponentList(cs) ==
    /\ upd_pc = "idle"
    /\ screen_made
    /\ LET S1 == [Shell EXCEPT !.components = @ \o cs]
       IN  IF focused_component = NoComponent
           THEN /\ components' = S1.components
                /\ ShellBecomes(ShellSetFocus(S1, cs[1]))
           ELSE /\ components' = Append(S1.components, ListObject)
                /\ ShellBecomes(S1)
    /\ n_ops' = n_ops + 1
    /\ shell_op' = [op |-> "add_component_list", c |-> cs[1], clear |-> FALSE]
    /\ UNCHANGED <<routerFrame, button_callbacks, encoder_callbacks, reg_call,
                   n_regs, screen_made, ui_counter, redrawn, n_draws,
                   after_draw, repeats>>

\* update() calls the ('user', 'short') callback: screen.handle_user_button()
UserButtonShort ==
    /\ upd_pc = "idle"
    /\ screen_made
    /\ ShellBecomes(HandleUserButton(Shell))
    /\ UNCHANGED <<routerFrame, button_callbacks, encoder_callbacks, reg_call,
                   n_regs, screen_made, ui_counter, components, redrawn, n_ops,
                   shell_op, n_draws, after_draw, repeats>>

\* screen.set_focus(component), called by the application
SetFocus(c) ==
    /\ upd_pc = "idle"
    /\ screen_made
    /\ ShellBecomes(ShellSetFocus(Shell, c))
    /\ n_ops' = n_ops + 1
    /\ shell_op' = [op |-> "set_focus", c |-> c, clear |-> FALSE]
    /\ UNCHANGED <<routerFrame, button_callbacks, encoder_callbacks, reg_call,
                   n_regs, screen_made, ui_counter, components, redrawn,
                   n_draws, after_draw, repeats>>

\* Screen.draw(clear), called by the application
ScreenDraw(clear) ==
    /\ upd_pc = "idle"
    /\ LET S == Draw(Shell, clear)
       IN  ShellBecomes(S) /\ DrawRecorded(S)
    /\ n_ops' = n_ops + 1
    /\ shell_op' = [op |-> "draw", c |-> NoComponent, clear |-> clear]
    /\ UNCHANGED <<routerFrame, button_callbacks, encoder_callbacks, reg_call,
                   n_regs, screen_made, ui_counter, components, redrawn>>

\* Screen.update, begun by button_manager.update(), has this left to do
RedrawPending == upd_pc = "idle" /\ redrawn < n_polls

\* Screen.update after button_manager.update() has returned
ScreenRedraw ==
    /\ RedrawPending
    /\ redrawn' = n_polls
    /\ IF \E i \in 1..Len(components) : widgets[components[i]].dirty
       THEN LET S == Draw(Shell, FALSE)
            IN  ShellBecomes(S) /\ DrawRecorded(S)
       ELSE /\ ShellBecomes(Shell)
            /\ UNCHANGED <<after_draw, n_draws, repeats>>
    /\ UNCHANGED <<routerFrame, button_callbacks, encoder_callbacks, reg_call,
                   n_regs, screen_made, ui_counter, components, n_ops,
                   shell_op>>

-----------------------------------------------------------------------------
(* AdvancedButtonManager *)

\* One callback invocation: whose callback, which function, its argument, the
\* id of the edge it answers (the press for get_button, the release for an
\* event, 0 for a rotation), the id of that press and the update() it ran in.
Call(button, kind, cb, arg, edge, src, poll) ==
    [button |-> button, kind |-> kind, cb |-> cb, arg |-> arg, edge |-> edge,
     src |-> src, poll |-> poll]

\* Variant of SetButtonCallback: a key that has a callback keeps it.
SetButtonCallbackKeepFirst(button_name, press_type, callback) ==
    /\ upd_pc = "idle"
    /\ n_regs' = n_regs + 1
    /\ IF button_name \notin DOMAIN button_callbacks \/ press_type \notin {"short", "long"}
       THEN /\ reg_call' = [fn |-> "button", a |-> button_name, b |-> press_type,
                            cb |-> callback, raised |-> "ValueError"]
            /\ UNCHANGED button_callbacks
       ELSE /\ reg_call' = [fn |-> "button", a |-> button_name, b |-> press_type,
                            cb |-> callback, raised |-> None]
            /\ IF button_callbacks[button_name][press_type] = None
               THEN button_callbacks' =
                      [button_callbacks EXCEPT ![button_name][press_type] = callback]
               ELSE UNCHANGED button_callbacks
    /\ UNCHANGED <<now, encVars, geVars, btnVars, irq_mode, button_pressed,
                   encoder_callbacks, upd_raised, fired, enc_seen, flag_src, gb,
                   scrVars, upd_pc>>

\* set_button_callback(button_name, press_type, callback)
SetButtonCallback(button_name, press_type, callback) ==
    /\ upd_pc = "idle"
    /\ n_regs' = n_regs + 1
    /\ IF button_name \notin DOMAIN button_callbacks \/ press_type \notin {"short", "long"}
       THEN /\ reg_call' = [fn |-> "button", a |-> button_name, b |-> press_type,
                            cb |-> callback, raised |-> "ValueError"]
            /\ UNCHANGED button_callbacks
       ELSE /\ reg_call' = [fn |-> "button", a |-> button_name, b |-> press_type,
                            cb |-> callback, raised |-> None]
            /\ button_callbacks' =
                  [button_callbacks EXCEPT ![button_name][press_type] = callback]
    /\ UNCHANGED <<now, encVars, geVars, btnVars, irq_mode, button_pressed,
                   encoder_callbacks, upd_raised, fired, enc_seen, flag_src, gb,
                   scrVars, upd_pc>>

\* Variant of SetEncoderCallback: no validation, the dict takes any key.
SetEncoderCallbackUnchecked(direction, callback) ==
    /\ upd_pc = "idle"
    /\ n_regs' = n_regs + 1
    /\ reg_call' = [fn |-> "encoder", a |-> direction, b |-> None,
                    cb |-> callback, raised |-> None]
    /\ encoder_callbacks' =
          [d \in DOMAIN encoder_callbacks \cup {direction} |->
             IF d = direction THEN callback ELSE encoder_callbacks[d]]
    /\ UNCHANGED <<now, encVars, geVars, btnVars, irq_mode, button_pressed,
                   button_callbacks, upd_raised, fired, enc_seen, flag_src, gb,
                   scrVars, upd_pc>>

\* set_encoder_callback(direction, callback)
SetEncoderCallback(direction, callback) ==
    /\ upd_pc = "idle"
    /\ n_regs' = n_regs + 1
    /\ IF direction \notin {"clockwise", "counterclockwise"}
       THEN /\ reg_call' = [fn |-> "encoder", a |-> direction, b |-> None,
                            cb |-> callback, raised |-> "ValueError"]
            /\ UNCHANGED encoder_callbacks
       ELSE /\ reg_call' = [fn |-> "encoder", a |-> direction, b |-> None,
                            cb |-> callback, raised |-> None]
            /\ encoder_callbacks' = [encoder_callbacks EXCEPT ![direction] = callback]
    /\ UNCHANGED <<now, encVars, geVars, btnVars, irq_mode, button_pressed,
                   button_callbacks, upd_raised, fired, enc_seen, flag_src, gb,
                   scrVars, upd_pc>>

\* Variant of RotationCalls: the counterclockwise callback gets the signed value.
RotationCallsSigned(rotation) ==
    IF rotation > 0 /\ encoder_callbacks["clockwise"] # None
    THEN <<Call("rotary", "clockwise", encoder_callbacks["clockwise"],
                rotation, 0, 0, n_polls + 1)>>
    ELSE IF rotation < 0 /\ encoder_callbacks["counterclockwise"] # None
    THEN <<Call("rotary", "counterclockwise", encoder_callbacks["counterclockwise"],
                rotation, 0, 0, n_polls + 1)>>
    ELSE <<>>

\* update(): the callbacks invoked for the value get_rotation returned
RotationCalls(rotation) ==
    IF rotation > 0 /\ encoder_callbacks["clockwise"] # None
    THEN <<Call("rotary", "clockwise", encoder_callbacks["clockwise"],
                rotation, 0, 0, n_polls + 1)>>
    ELSE IF rotation < 0 /\ encoder_callbacks["counterclockwise"] # None
    THEN <<Call("rotary", "counterclockwise", encoder_callbacks["counterclockwise"],
                Abs(rotation), 0, 0, n_polls + 1)>>
    ELSE <<>>

\* update() after rotation = self.encoder.get_rotation()
DispatchRotation ==
    /\ upd_pc = "rotation"
    /\ fired' = fired \o RotationCalls(gr_value)
    /\ Invoke(RotationCalls(gr_value))
    /\ upd_pc' = "button"
    /\ UNCHANGED <<encVars, geVars, btnVars, irq_mode, button_pressed,
                   button_callbacks, encoder_callbacks, reg_call, n_regs,
                   upd_raised, enc_seen, flag_src, gb>>

\* update(): if self.encoder.get_button(), the ('encoder', 'short') callback
DispatchButton ==
    /\ upd_pc = "button"
    /\ LET calls == IF button_pressed /\ button_callbacks["encoder"]["short"] # None
                    THEN <<Call("encoder", "short",
                                button_callbacks["encoder"]["short"],
                                0, flag_src, flag_src, n_polls + 1)>>
                    ELSE <<>>
       IN  /\ button_pressed' = FALSE
           /\ gb' = [gb EXCEPT !.since = 0]
           /\ fired' = fired \o calls
           /\ Invoke(calls)
    /\ upd_pc' = "get_events"
    /\ UNCHANGED <<encVars, geVars, btnVars, irq_mode, button_callbacks,
                   encoder_callbacks, reg_call, n_regs, upd_raised, enc_seen,
                   flag_src>>

\* Variant of KindOf: every event is dispatched as a short press.
KindOfAlwaysShort(e) == "short"

\* update(): the press type an event of get_events is looked up under
KindOf(e) == IF e.type = "long_press" THEN "long" ELSE "short"

EventCall(e) ==
    Call(e.name, KindOf(e), button_callbacks[e.name][KindOf(e)], 0, e.id, e.src,
         n_polls)

Registered(e) == button_callbacks[e.name][KindOf(e)] # None

\* Variant of DispatchEvents: the callback is called without the None test, so
\* the first event without a callback ends update() with a TypeError.
DispatchEventsUnguarded ==
    /\ upd_pc = "events"
    /\ LET holes == {i \in 1..Len(ge_result) : ~Registered(ge_result[i])}
           stop == IF holes = {} THEN Len(ge_result) + 1
                   ELSE CHOOSE i \in holes : \A j \in holes : i <= j
           calls == [i \in 1..(stop - 1) |-> EventCall(ge_result[i])]
       IN  /\ fired' = fired \o calls
           /\ Invoke(calls)
           /\ upd_raised' = (holes # {})
    /\ upd_pc' = "idle"
    /\ UNCHANGED <<encVars, geVars, btnVars, irq_mode, button_pressed,
                   button_callbacks, encoder_callbacks, reg_call, n_regs,
                   enc_seen, flag_src, gb>>

\* update(): the loop over the events get_events returned
DispatchEvents ==
    /\ upd_pc = "events"
    /\ LET due == SelectSeq(ge_result, Registered)
           calls == [i \in 1..Len(due) |-> EventCall(due[i])]
       IN  /\ fired' = fired \o calls
           /\ Invoke(calls)
    /\ upd_pc' = "idle"
    /\ UNCHANGED <<encVars, geVars, btnVars, irq_mode, button_pressed,
                   button_callbacks, encoder_callbacks, reg_call, n_regs,
                   upd_raised, enc_seen, flag_src, gb>>

-----------------------------------------------------------------------------
(* Specifications *)

Init ==
    /\ now = 0
    /\ pin_a = 1 /\ pin_b = 1
    /\ last_a_state = 1
    /\ counter = 0
    /\ last_interrupt_time = 0
    /\ gr_pc = "idle" /\ gr_value = 0
    /\ applied = 0 /\ returned = 0
    /\ n_a_edges = 0 /\ acc_edges = 0 /\ cnt_edges = 0
    /\ b_zero = FALSE /\ ab_diff = TRUE
    /\ burst_t0 = 0 /\ burst_n = 0 /\ burst_c0 = 0
    /\ burst_ok = FALSE /\ burst_lvl = FALSE /\ burst_acc = 0
    /\ burst_clean = FALSE
    /\ pin_btn = [b \in Buttons |-> 1]
    /\ press_events = <<>>
    /\ ge_pc = "idle"
    /\ ge_alias = FALSE /\ ge_iter = <<>> /\ ge_idx = 0
    /\ ge_events = <<>> /\ ge_new_events = <<>> /\ ge_result = <<>>
    /\ n_edges = 0
    /\ last_start = [b \in Buttons |-> [id |-> 0, t |-> 0]]
    /\ matched = {}
    /\ overlap = [b \in Buttons |-> FALSE]
    /\ delivered = <<>>
    /\ ge_entry = <<>>
    /\ ge_irq = FALSE
    /\ quiet = FALSE
    /\ n_polls = 0
    /\ irq_mode \in {"both", "last"}
    /\ button_pressed = FALSE
    /\ button_callbacks = [b \in Buttons |-> [k \in {"short", "long"} |-> None]]
    /\ encoder_callbacks = [d \in {"clockwise", "counterclockwise"} |-> None]
    /\ reg_call = [fn |-> None, a |-> None, b |-> None, cb |-> None, raised |-> None]
    /\ n_regs = 0
    /\ upd_pc = "idle"
    /\ upd_raised = FALSE
    /\ fired = <<>>
    /\ enc_seen = 0
    /\ flag_src = 0
    /\ edge_t = 0
    /\ gb = [pc |-> "idle", n |-> 0, value |-> FALSE, covered |-> 0,
             prev |-> [value |-> FALSE, covered |-> 0],
             since |-> 0, press_t |-> 0]
    /\ screen_made = FALSE
    /\ ui_counter = 0
    /\ widgets = <<>>
    /\ components = <<>>
    /\ focused_component = NoComponent
    /\ focus_counter = 1
    /\ display = <<>>
    /\ redrawn = 0
    /\ n_ops = 0
    /\ shell_op = [op |-> "none", c |-> NoComponent, clear |-> FALSE]
    /\ last_cycle = [n |-> 0, ids |-> {}, id |-> NoComponent,
                     before |-> [held |-> NoComponent, flags |-> {}],
                     after |-> [held |-> NoComponent, flags |-> {}]]
    /\ forwarded = <<>>
    /\ drawn = <<>>
    /\ n_draws = 0
    /\ after_draw = [now |-> 0, widgets |-> <<>>, components |-> <<>>]
    /\ repeats = 0
    /\ slept = 0
    /\ lv = [made |-> FALSE, items |-> 0, visible_items |-> 0,
             selected_index |-> 0, scroll_offset |-> 0, dirty |-> FALSE,
             calls |-> 0, old_selected |-> 0, old_dirty |-> FALSE]

\* Where the encoder button's second handler plays no part, one irq_mode is
\* enough.
InitAlone == Init /\ irq_mode = "both"

InitLast == Init /\ irq_mode = "last"

NextEnc ==
    \/ \E dt \in EncoderSteps :
          /\ n_a_edges < MaxEncEdges /\ now + dt <= MaxEncTime
          /\ PhaseAEdge(dt) /\ UNCHANGED upd_pc
    \/ PhaseBEdge /\ UNCHANGED upd_pc
    \/ GetRotationRead /\ UNCHANGED upd_pc
    \/ GetRotationReset /\ UNCHANGED upd_pc

\* Button edges may arrive at any point of get_events.
NextBtn ==
    \/ \E b \in Buttons, dt \in ButtonSteps :
          /\ n_edges < MaxEdges /\ now + dt <= MaxTime
          /\ ButtonPress(b, dt) /\ UNCHANGED upd_pc
    \/ \E b \in Buttons, dt \in ButtonSteps :
          /\ n_edges < MaxEdges /\ now + dt <= MaxTime
          /\ ButtonRelease(b, dt) /\ UNCHANGED upd_pc
    \/ n_polls < MaxPolls /\ GetEventsBegin /\ UNCHANGED upd_pc
    \/ GetEventsStep /\ UNCHANGED upd_pc
    \/ GetEventsStore /\ UNCHANGED upd_pc

\* Button edges arrive only between two get_events calls.
NextLog ==
    \/ \E b \in Buttons, dt \in LogSteps :
          /\ n_edges < MaxLogEdges /\ ge_pc = "idle"
          /\ ButtonPress(b, dt) /\ UNCHANGED upd_pc
    \/ \E b \in Buttons, dt \in LogSteps :
          /\ n_edges < MaxLogEdges /\ ge_pc = "idle"
          /\ ButtonRelease(b, dt) /\ UNCHANGED upd_pc
    \/ n_polls < MaxPolls /\ GetEventsBegin /\ UNCHANGED upd_pc
    \/ GetEventsStep /\ UNCHANGED upd_pc
    \/ GetEventsStore /\ UNCHANGED upd_pc

\* Button edges between two get_events calls, a release followed by bounces.
NextBnc ==
    \/ \E b \in BncButtons, dt \in LogSteps :
          /\ n_edges < MaxBncEdges /\ ge_pc = "idle"
          /\ ButtonPress(b, dt) /\ UNCHANGED upd_pc
    \/ \E b \in BncButtons, dt \in LogSteps :
          /\ n_edges < MaxBncEdges /\ ge_pc = "idle"
          /\ ButtonRelease(b, dt) /\ UNCHANGED upd_pc
    \/ \E b \in BncButtons, dt \in LogSteps :
          /\ n_edges < MaxBncEdges /\ ge_pc = "idle"
          /\ ButtonReleaseAgain(b, dt) /\ UNCHANGED upd_pc
    \/ n_polls < MaxPolls /\ GetEventsBegin /\ UNCHANGED upd_pc
    \/ GetEventsStep /\ UNCHANGED upd_pc
    \/ GetEventsStore /\ UNCHANGED upd_pc

\* SpecDeb: more edges may be taken.
DebEdge == ~EncPending /\ n_edges + n_a_edges < MaxDebEdges

\* The encoder's two handlers, which share last_interrupt_time, against
\* get_button; an edge may arrive between the two steps of get_button.
NextDeb ==
    \/ EncoderButtonHandler
    \/ \E dt \in DebSteps : DebEdge /\ EncoderPinFall(dt)
    \/ \E dt \in DebSteps : DebEdge /\ EncoderPinRise(dt)
    \/ \E dt \in DebSteps : DebEdge /\ PhaseAEdge(dt) /\ UNCHANGED upd_pc
    \/ ~EncPending /\ gb.n < MaxDebPolls /\ GetButtonTest
    \/ ~EncPending /\ GetButtonClear

\* The steps of one update() call, no handler pending.
UpdateStep ==
    \/ upd_pc = "get_rotation" /\ GetRotationReset /\ upd_pc' = "rotation"
    \/ DispatchRotation
    \/ DispatchButton
    \/ upd_pc = "get_events" /\ GetEventsBegin /\ UNCHANGED upd_pc
    \/ upd_pc = "get_events" /\ GetEventsStep /\ UNCHANGED upd_pc
    \/ upd_pc = "get_events" /\ GetEventsStore /\ upd_pc' = "events"
    \/ DispatchEvents

\* SpecUpd: more edges may be taken, between two update() calls.
UpdEdge == ~EncPending /\ upd_pc = "idle" /\ n_edges + n_a_edges < MaxUpdEdges

\* SpecUpd: the callbacks are registered before the first edge and update().
Setup == n_regs < MaxSetup /\ n_edges = 0 /\ n_a_edges = 0 /\ n_polls = 0

\* update() against the edges of the encoder, its button and the power button;
\* the encoder button's two handlers run back to back.
NextUpd ==
    \/ EncoderButtonHandler
    \/ \E b \in UpdButtons, dt \in UpdSteps :
          /\ UpdEdge /\ (b = "encoder" => irq_mode = "both")
          /\ ButtonPress(b, dt) /\ UNCHANGED upd_pc
    \/ \E b \in UpdButtons, dt \in HoldSteps :
          /\ UpdEdge /\ (b = "encoder" => irq_mode = "both")
          /\ ButtonRelease(b, dt) /\ UNCHANGED upd_pc
    \/ \E dt \in UpdSteps : UpdEdge /\ EncoderPinFall(dt)
    \/ \E dt \in HoldSteps : UpdEdge /\ EncoderPinRise(dt)
    \/ \E dt \in UpdSteps : UpdEdge /\ PhaseAEdge(dt) /\ UNCHANGED upd_pc
    \/ \E key \in SetupButtons : Setup /\ SetButtonCallback(key[1], key[2], "f")
    \/ \E d \in SetupDirections : Setup /\ SetEncoderCallback(d, "f")
    \/ /\ ~EncPending /\ upd_pc = "idle" /\ n_polls < MaxUpdPolls
       /\ GetRotationRead /\ upd_pc' = "get_rotation"
    \/ ~EncPending /\ UpdateStep

\* SpecReg: more edges may be taken, between two update() calls.
RegEdge == upd_pc = "idle" /\ n_edges + n_a_edges < MaxRegEdges

\* Registrations with any arguments at any time between two update() calls,
\* against the encoder phases and the power button.
NextReg ==
    \/ \E n \in ButtonNames, k \in PressTypes, f \in Callbacks :
          n_regs < MaxRegs /\ SetButtonCallback(n, k, f)
    \/ \E d \in Directions, f \in Callbacks :
          n_regs < MaxRegs /\ SetEncoderCallback(d, f)
    \/ \E dt \in UpdSteps : RegEdge /\ ButtonPress("power", dt) /\ UNCHANGED upd_pc
    \/ \E dt \in UpdSteps : RegEdge /\ ButtonRelease("power", dt) /\ UNCHANGED upd_pc
    \/ \E dt \in UpdSteps : RegEdge /\ PhaseAEdge(dt) /\ UNCHANGED upd_pc
    \/ upd_pc = "idle" /\ PhaseBEdge /\ UNCHANGED upd_pc
    \/ /\ upd_pc = "idle" /\ n_polls < MaxRegPolls
       /\ GetRotationRead /\ upd_pc' = "get_rotation"
    \/ UpdateStep

\* SpecScr: nothing is running: no handler is due, Screen.update is not
\* under way.
ScrIdle == screen_made /\ upd_pc = "idle" /\ ~RedrawPending /\ ~EncPending

\* SpecScr: the calls made on the shell, the edges and the Screen.update
\* calls so far
ScrInputs == (n_ops - 1) + n_edges + n_a_edges + n_polls

\* SpecScr: one more call, edge or Screen.update may follow.
ScrMore == ScrIdle /\ ScrInputs < MaxScrInputs

\* SpecScr: the components are created and added before the first edge and
\* the first Screen.update.
ScrSetup == ScrMore /\ n_edges = 0 /\ n_a_edges = 0 /\ n_polls = 0

\* The screen: components created and added, then Screen.update against the
\* edges of the encoder, its button and the user button, with set_focus and
\* draw called between two Screen.update calls.  The encoder button is
\* pressed once and held: its release runs no handler here.
NextScr ==
    \/ EncoderButtonHandler
    \/ ScreenNew
    \/ \E k \in WidgetKinds :
          ScrSetup /\ ui_counter < MaxWidgets /\ NewComponent(k)
    \/ \E c \in 1..ui_counter :
          ScrSetup /\ c \notin Uids(components) /\ AddComponent(c)
    \/ \E c \in Uids(components) : ScrMore /\ SetFocus(c)
    \/ \E clear \in Clears : ScrMore /\ ScreenDraw(clear)
    \/ \E dt \in UpdSteps :
          ScrMore /\ ButtonPress("user", dt) /\ UNCHANGED upd_pc
    \/ \E dt \in UpdSteps :
          ScrMore /\ ButtonRelease("user", dt) /\ UNCHANGED upd_pc
    \/ \E dt \in UpdSteps : ScrMore /\ EncoderPinFall(dt)
    \/ \E dt \in UpdSteps : ScrMore /\ PhaseAEdge(dt) /\ UNCHANGED upd_pc
    \/ ScrMore /\ GetRotationRead /\ upd_pc' = "get_rotation"
    \/ ~EncPending /\ UpdateStep
    \/ ScreenRedraw

\* SpecFoc: the components created and not yet added
Loose == (1..ui_counter) \ Uids(components)

\* SpecFoc: the lists add_component may be given: components not yet added,
\* each once
Lists ==
    {<<c>> : c \in Loose} \cup
    {cs \in Loose \X Loose : cs[1] # cs[2]}

\* SpecFoc: one more call on the shell may follow.
FocMore == screen_made /\ (n_ops - 1 - ui_counter) + last_cycle.n < MaxFocOps

\* The focus of the shell: components created, added one by one or as a list,
\* set_focus called by the application and handle_user_button by update().
NextFoc ==
    \/ ScreenNew
    \/ \E k \in WidgetKinds :
          screen_made /\ components = <<>> /\ ui_counter < MaxFocWidgets
          /\ NewComponent(k)
    \/ \E c \in Loose : FocMore /\ AddComponent(c)
    \/ \E cs \in Lists : FocMore /\ Len(cs) <= MaxListLen /\ AddComponentList(cs)
    \/ \E c \in Uids(components) : FocMore /\ IsComponent(c) /\ SetFocus(c)
    \/ FocMore /\ UserButtonShort

\* A ListView under rotations of any direction and positive step count,
\* drawn in between
NextList ==
    \/ \E len \in 0..MaxItems, rows \in 0..MaxRows : ListViewNew(len, rows)
    \/ lv.dirty /\ ListViewDraw
    \/ \E d \in {"clockwise", "counterclockwise"}, steps \in 1..MaxSteps :
          lv.calls < MaxListCalls /\ ListViewRotate(d, steps)

\* The rotary encoder: phase edges against get_rotation
SpecEnc == InitAlone /\ [][NextEnc]_vars

\* The button manager, a handler running between any two steps of get_events
SpecBtn == InitAlone /\ [][NextBtn]_vars

\* The button manager's log over longer runs of edges, get_events uninterrupted
SpecLog == InitAlone /\ [][NextLog]_vars

\* The button manager's log when a released button bounces
SpecBnc == InitAlone /\ [][NextBnc]_vars

\* The encoder's handlers and get_button, the button's pin running the
\* handler registered last
SpecDeb == InitLast /\ [][NextDeb]_vars

\* AdvancedButtonManager.update() over both managers
SpecUpd == Init /\ [][NextUpd]_vars

\* AdvancedButtonManager's callback tables
SpecReg == InitAlone /\ [][NextReg]_vars

\* The shell's focus under add_component, set_focus and handle_user_button
SpecFoc == InitLast /\ [][NextFoc]_vars

\* ListView.handle_encoder_rotation
SpecList == InitLast /\ [][NextList]_vars

\* Screen over AdvancedButtonManager and the components, the encoder
\* button's pin running the handler registered last
SpecScr == InitLast /\ [][NextScr]_vars

-----------------------------------------------------------------------------
(* Properties *)

\* The step of button b's pin from released to pressed / pressed to released
Falls(b) == pin_btn[b] = 1 /\ pin_btn'[b] = 0
Rises(b) == pin_btn[b] = 0 /\ pin_btn'[b] = 1

\* The step on which get_events returns
Returns == ge_pc = "store" /\ ge_pc' = "idle"

\* b's own press_start (the entry its last falling edge recorded) is in the log
OwnStartInLog(b) == \E i \in 1..Len(press_events) : press_events[i].id = last_start[b].id

\* C1: get_rotation reads and resets the counter atomically with respect to
\* encoder_handler: whatever the interleaving, the values returned so far plus
\* the current counter equal the net sum of the steps encoder_handler applied.
C1_NoStepLost == returned + counter = applied

\* C2: no press_end is returned by get_events more than once, also when a
\* button edge runs while get_events iterates the log.
C2_NoEventTwice ==
    \A i, j \in 1..Len(delivered) : i # j => delivered[i] # delivered[j]

\* C3: a get_events call never discards a press_end it did not return: every
\* press_end that is in the log when the call replaces the log (recorded before
\* or during the call, and not evicted) is among the events it returns.
C3_DrainReturnsWhatItDiscards ==
    [][Returns =>
         \A i \in 1..Len(press_events) :
            IsEnd(press_events[i]) =>
               \E j \in 1..Len(ge_events) : ge_events[j].id = press_events[i].id]_vars

\* C4: the button log holds at most 5 entries in every reachable state.
C4_LogAtMostFive == Len(press_events) <= LOG_CAPACITY

\* C5: a press arriving while the log is at capacity evicts the oldest entry
\* (the last one): the new press_start becomes the newest entry and the
\* most recent entries are all kept behind it.
C5_EvictsOldest ==
    [][\A b \in Buttons :
         (Falls(b) /\ Len(press_events) = LOG_CAPACITY) =>
            /\ IsStart(Head(press_events'))
            /\ Head(press_events').name = b
            /\ Tail(press_events') = SubSeq(press_events, 1, LOG_CAPACITY - 1)]_vars

\* C6: the press_end a rising edge of b records is paired with the most recently
\* recorded press_start of b not yet matched by an earlier release (b's own
\* press), and its duration is the release time minus that press's timestamp.
C6_PairsWithUnmatchedStart ==
    [][\A b \in Buttons :
         (Rises(b) /\ Len(press_events') = Len(press_events) + 1) =>
            /\ Head(press_events').src \notin matched
            /\ Head(press_events').src = last_start[b].id
            /\ Head(press_events').val = now' - last_start[b].t]_vars

\* C7: a release of b whose press_start is no longer in the log records
\* nothing: press_events is unchanged.
C7_UnmatchedReleaseDropped ==
    [][\A b \in Buttons :
         (Rises(b) /\ ~OwnStartInLog(b)) => press_events' = press_events]_vars

\* C8: when presses of different buttons overlap, each release records exactly
\* one press_end for its own button whose duration is its own release time minus
\* its own press time, whatever was completed and drained before.
C8_OverlapOwnDuration ==
    [][\A b \in Buttons :
         (Rises(b) /\ overlap[b]) =>
            /\ Len(press_events') = Len(press_events) + 1
            /\ IsEnd(Head(press_events'))
            /\ Head(press_events').name = b
            /\ Head(press_events').val = now' - last_start[b].t
            /\ Tail(press_events') = press_events]_vars

C10_DrainPartition ==
    [][(Returns /\ ~ge_irq) =>
         LET ends == SelectSeq(ge_entry, IsEnd)
         IN  /\ Len(ge_result') = Len(ends)
             /\ \A k \in 1..Len(ends) :
                   /\ ge_result'[k].id = ends[k].id
                   /\ ge_result'[k].name = ends[k].name
                   /\ ge_result'[k].val = ends[k].val
                   /\ ge_result'[k].type \in {"long_press", "short_press"}
             /\ press_events' = SelectSeq(ge_entry, IsStart)
             /\ quiet => (ge_result' = <<>> /\ press_events' = ge_entry)]_vars

\* C10 witness: a first get_events returned the one completed press, and a
\* second one with no edge in between returned nothing and kept the press_start.
C10_Witness ==
    /\ n_polls = 2 /\ ge_pc = "idle" /\ ~ge_irq /\ quiet
    /\ n_edges = 2
    /\ Len(delivered) = 1
    /\ ge_result = <<>>
    /\ Len(press_events) = 1 /\ IsStart(press_events[1])

\* An encoder_handler run for a phase-A edge that passes the debounce test.
AcceptedEdge == pin_a' # pin_a /\ Accepted(now')

\* An encoder_handler run for a phase-A edge that fails the debounce test.
IgnoredEdge == pin_a' # pin_a /\ ~Accepted(now')

\* get_rotation reads the counter.
Reads == gr_pc = "idle" /\ gr_pc' = "reset"

\* C11 as stated: with phase B held at 0 since the counter was last reset,
\* get_rotation returns the number of phase-A edges accepted since then.
C11_LowBCountsEveryEdge ==
    [][(Reads /\ b_zero) => gr_value' = acc_edges]_vars

\* C11, amended: when phase B differed from the phase-A level read at every
\* edge that changed the counter since its last reset, get_rotation returns
\* exactly the number of those edges (0 when there was none), and the reset
\* leaves the counter at 0.
C11_DifferingPhasesCountClockwise ==
    [][/\ (Reads /\ ab_diff) => gr_value' = cnt_edges
       /\ (gr_pc = "reset" /\ gr_pc' = "idle") => counter' = 0]_vars

C11_Witness ==
    /\ gr_pc = "reset" /\ gr_value = 2 /\ cnt_edges = 2 /\ ab_diff
    /\ returned = 0 /\ applied = 2

\* C12: an accepted phase-A interrupt whose level differs from last_a_state
\* adds +1 to the counter when A and B differ and -1 when they are equal, and
\* stores the level in last_a_state; one whose level equals last_a_state
\* leaves both unchanged.
C12_QuadratureStep ==
    [][AcceptedEdge =>
         IF pin_a' # last_a_state
         THEN /\ counter' = counter + (IF pin_a' # pin_b THEN 1 ELSE -1)
              /\ last_a_state' = pin_a'
         ELSE /\ counter' = counter
              /\ last_a_state' = last_a_state]_vars

C12_Witness ==
    /\ acc_edges = 3 /\ cnt_edges = 2 /\ counter = 0 /\ applied = 0
    /\ last_a_state = pin_a /\ returned = 0 /\ gr_pc = "idle"

\* C13 as stated: a phase-A edge less than 2 ms after the previous accepted
\* edge changes none of counter, last_a_state and last_interrupt_time, and a
\* burst of 10 edges within 1 ms moves the counter by one step, or by none when
\* its first edge came less than 2 ms after an accepted edge.
C13_BurstCountsOnce ==
    [][/\ IgnoredEdge => UNCHANGED <<counter, last_a_state, last_interrupt_time>>
       /\ (burst_n' = 10 /\ burst_clean') =>
             IF burst_ok'
             THEN counter' - burst_c0' \in {1, -1}
             ELSE counter' = burst_c0']_vars

\* C13, amended: a phase-A edge less than 2 ms after the previous accepted edge
\* changes none of counter, last_a_state and last_interrupt_time, and a burst
\* of 10 edges within 1 ms moves the counter by at most one step: by exactly
\* one when its first edge is accepted and reads a level other than
\* last_a_state, by none when no edge of the burst is accepted.
C13_BurstCountsAtMostOnce ==
    [][/\ IgnoredEdge => UNCHANGED <<counter, last_a_state, last_interrupt_time>>
       /\ (burst_n' = 10 /\ burst_clean') =>
             /\ counter' - burst_c0' \in {1, 0, -1}
             /\ (burst_ok' /\ burst_lvl') => counter' # burst_c0'
             /\ burst_acc' = 0 => counter' = burst_c0']_vars

C13_Witness ==
    /\ burst_n = 10 /\ burst_clean /\ burst_ok /\ burst_lvl /\ burst_acc = 1
    /\ burst_c0 = 1 /\ counter = 2 /\ now - burst_t0 <= 1

\* The callback invocations of update() number p, in order.
CallsOf(p) == SelectSeq(fired, LAMBDA c : c.poll = p)

IsRotary(c) == c.button = "rotary"

\* The invocation came from the loop over get_events' list.
IsEventCall(c) == ~IsRotary(c) /\ c.edge # c.src

\* C14: a poll that drained r > 0 invokes the clockwise callback with r, one
\* that drained r < 0 the counterclockwise callback with |r|, one that drained
\* 0 neither; no poll invokes both.
C14_RotationDispatch ==
    /\ upd_pc = "button" =>
         LET r == gr_value
             new == CallsOf(n_polls + 1)
             cw == encoder_callbacks["clockwise"]
             ccw == encoder_callbacks["counterclockwise"]
         IN  /\ (r > 0 /\ cw # None) =>
                   /\ Len(new) = 1 /\ new[1].kind = "clockwise"
                   /\ new[1].cb = cw /\ new[1].arg = r
             /\ (r < 0 /\ ccw # None) =>
                   /\ Len(new) = 1 /\ new[1].kind = "counterclockwise"
                   /\ new[1].cb = ccw /\ new[1].arg = 0 - r
             /\ (r = 0 \/ (r > 0 /\ cw = None) \/ (r < 0 /\ ccw = None)) => new = <<>>
    /\ \A i, j \in 1..Len(fired) :
         (i # j /\ IsRotary(fired[i]) /\ IsRotary(fired[j]))
            => fired[i].poll # fired[j].poll

C14_Witness ==
    /\ upd_pc = "idle" /\ n_polls = 2 /\ returned = -2 /\ Len(fired) = 1
    /\ fired[1].kind = "counterclockwise" /\ fired[1].arg = 2 /\ fired[1].poll = 1
    /\ encoder_callbacks["clockwise"] # None

\* The press type update() looks an event up under.
PressTypeOf(e) == IF e.type = "long_press" THEN "long" ELSE "short"

\* The events of a list that have a callback, in the list's order.
Due(events) ==
    SelectSeq(events, LAMBDA e : button_callbacks[e.name][PressTypeOf(e)] # None)

\* C15: for every event of the list get_events returned, update() invokes the
\* callback registered for the event's (button, kind) exactly once, in the
\* list's order, and invokes no callback of another button or kind for it; no
\* later poll invokes a callback for the same event again.
C15_EventDispatch ==
    /\ (upd_pc = "idle" /\ n_polls > 0) =>
         LET new == SelectSeq(CallsOf(n_polls), IsEventCall)
             due == Due(ge_result)
         IN  /\ Len(new) = Len(due)
             /\ \A i \in 1..Len(due) :
                   /\ new[i].button = due[i].name
                   /\ new[i].kind = PressTypeOf(due[i])
                   /\ new[i].cb = button_callbacks[due[i].name][PressTypeOf(due[i])]
                   /\ new[i].edge = due[i].id
    /\ \A i, j \in 1..Len(fired) :
         (i # j /\ IsEventCall(fired[i]) /\ IsEventCall(fired[j]))
            => fired[i].edge # fired[j].edge

C15_Witness ==
    /\ upd_pc = "idle" /\ n_polls = 2 /\ Len(delivered) = 1
    /\ button_callbacks["power"]["long"] = "f"
    /\ button_callbacks["power"]["short"] = "f"
    /\ Len(fired) = 1
    /\ fired[1].button = "power" /\ fired[1].kind = "long" /\ fired[1].poll = 1
    /\ fired[1].src = last_start["power"].id
    /\ now - last_start["power"].t = 3000

C17_RotationThenNewestFirst ==
    \A i, j \in 1..Len(fired) :
       (i < j /\ fired[i].poll = fired[j].poll) =>
          /\ ~IsRotary(fired[j])
          /\ ~IsRotary(fired[i]) => fired[i].edge > fired[j].edge

\* C18: an event whose (button, kind), or a rotation whose direction, has no
\* callback invokes nothing and raises nothing, and the events after it in
\* the same poll are still dispatched.
C18_UnregisteredSkipped ==
    /\ ~upd_raised
    /\ \A i \in 1..Len(fired) : fired[i].cb # None
    /\ (upd_pc = "idle" /\ n_polls > 0) =>
         \A k \in 1..Len(ge_result) :
            LET key == <<ge_result[k].name, PressTypeOf(ge_result[k])>>
                hits == {i \in 1..Len(fired) :
                           /\ fired[i].poll = n_polls
                           /\ fired[i].edge = ge_result[k].id}
            IN  IF button_callbacks[key[1]][key[2]] = None
                THEN hits = {}
                ELSE Cardinality(hits) = 1
    /\ (/\ upd_pc = "button"
        /\ \/ (gr_value > 0 /\ encoder_callbacks["clockwise"] = None)
           \/ (gr_value < 0 /\ encoder_callbacks["counterclockwise"] = None))
         => CallsOf(n_polls + 1) = <<>>

C18_Witness ==
    /\ upd_pc = "idle" /\ n_polls = 1 /\ Len(ge_result) = 2
    /\ ge_result[1].name = "power" /\ ge_result[1].type = "long_press"
    /\ ge_result[2].name = "power" /\ ge_result[2].type = "short_press"
    /\ button_callbacks["power"]["long"] = None
    /\ Len(fired) = 1 /\ fired[1].button = "power" /\ fired[1].kind = "short"
    /\ fired[1].edge = ge_result[2].id
    /\ encoder_callbacks["clockwise"] = None /\ returned = 0

\* A set_button_callback or set_encoder_callback call.
Registers == n_regs' = n_regs + 1

\* The arguments of the call name a key of the table they address.
ValidKey(c) ==
    IF c.fn = "button"
    THEN c.a \in {"encoder", "user", "power"} /\ c.b \in {"short", "long"}
    ELSE c.a \in {"clockwise", "counterclockwise"}

\* C19: set_encoder_callback with an invalid direction and
\* set_button_callback with an invalid button or kind raise an error and
\* leave both callback tables unchanged; a call with a valid key raises none.
C19_InvalidKeyRejected ==
    [][Registers =>
         IF ValidKey(reg_call')
         THEN reg_call'.raised = None
         ELSE /\ reg_call'.raised = "ValueError"
              /\ UNCHANGED <<button_callbacks, encoder_callbacks>>]_vars

C19_Witness ==
    /\ n_regs = 2
    /\ reg_call.fn = "encoder" /\ reg_call.a = "up" /\ reg_call.raised = "ValueError"
    /\ button_callbacks["power"]["short"] = "f"
    /\ encoder_callbacks = [d \in {"clockwise", "counterclockwise"} |-> None]

\* The callback the tables hold for the key a call was made under.
TableEntry(c) ==
    IF IsRotary(c) THEN encoder_callbacks[c.kind] ELSE button_callbacks[c.button][c.kind]

\* C20: a registration under a valid key stores its callback under that key,
\* replacing the one registered before, and changes no other key of either
\* table; every invocation calls the callback its key holds at that time.
C20_LastRegistrationWins ==
    [][/\ (Registers /\ ValidKey(reg_call')) =>
            IF reg_call'.fn = "button"
            THEN /\ button_callbacks'[reg_call'.a][reg_call'.b] = reg_call'.cb
                 /\ \A n \in Buttons, k \in {"short", "long"} :
                       <<n, k>> # <<reg_call'.a, reg_call'.b>>
                          => button_callbacks'[n][k] = button_callbacks[n][k]
                 /\ UNCHANGED encoder_callbacks
            ELSE /\ encoder_callbacks'[reg_call'.a] = reg_call'.cb
                 /\ \A d \in {"clockwise", "counterclockwise"} \ {reg_call'.a} :
                       encoder_callbacks'[d] = encoder_callbacks[d]
                 /\ UNCHANGED button_callbacks
       /\ \A i \in (Len(fired) + 1)..Len(fired') : fired'[i].cb = TableEntry(fired'[i])]_vars

C20_Witness ==
    /\ upd_pc = "idle" /\ n_regs = 2 /\ Len(fired) = 2
    /\ fired[1].kind = "clockwise" /\ fired[1].cb = "f" /\ fired[1].poll = 1
    /\ fired[2].kind = "clockwise" /\ fired[2].cb = "g" /\ fired[2].poll = 2
    /\ encoder_callbacks["clockwise"] = "g"

\* The components of the collection that are flagged focused
Flagged == {c \in Uids(components) : widgets[c].focused}

\* C21: once a component has been added, exactly one component of the
\* screen's collection has its focused flag set.
C21_ExactlyOneFocused == components # <<>> => Cardinality(Flagged) = 1

\* The step is the call op(c) on the shell.
Calls(op, c) == n_ops' # n_ops /\ shell_op'.op = op /\ shell_op'.c = c

\* C22: add_component(c) with no focused component makes c the focused
\* component; with a focused component, c joins unfocused (c.focused False)
\* and the focused component stays focused.
C22_AddFocusesOnlyTheFirst ==
    [][\A c \in 1..ui_counter :
         Calls("add_component", c) =>
           IF focused_component = NoComponent
           THEN focused_component' = c /\ widgets'[c].focused
           ELSE /\ ~widgets'[c].focused
                /\ focused_component' = focused_component
                /\ widgets'[focused_component].focused]_vars

\* C23: Screen.set_focus(c) while another component p is focused leaves p
\* unfocused, c focused and both dirty, whatever their flags were.
C23_SetFocusMarksBothDirty ==
    [][\A c \in 1..ui_counter :
         (Calls("set_focus", c) /\ focused_component \notin {NoComponent, c}) =>
           /\ ~widgets'[focused_component].focused
           /\ widgets'[c].focused
           /\ widgets'[focused_component].dirty
           /\ widgets'[c].dirty]_vars

\* C24: handle_user_button moves the focus from the focused id to
\* (focused id mod max id) + 1, where a component has that id.
C24_CycleFromFocusedId ==
    (last_cycle.n > 0 /\ last_cycle.before.held # NoComponent) =>
       LET next == (last_cycle.before.held % MaxOf(last_cycle.ids)) + 1
       IN  next \in last_cycle.ids => last_cycle.after.held = next

\* The last handle_user_button computed an id that no component has.
CycleMissed == last_cycle.n > 0 /\ last_cycle.id \notin last_cycle.ids

\* C25: when handle_user_button computes an id no component has (ids not
\* dense, or no component at all), update() goes on without an exception and
\* the focused component and every focused flag are as before the call.
C25_MissLeavesFocus ==
    CycleMissed => (last_cycle.after = last_cycle.before /\ ~upd_raised)

C25_Witness ==
    /\ CycleMissed /\ last_cycle.ids # {}
    /\ last_cycle.before.held # NoComponent
    /\ upd_pc = "idle" /\ ~RedrawPending

\* The handle_* calls the step makes on components
NewForwards == SubSeq(forwarded', Len(forwarded) + 1, Len(forwarded'))

\* C26: the rotation callback and the encoder-button callback of update()
\* call handle_encoder_rotation / handle_button_press on the component the
\* shell holds as focused and on no other; with none held, on none.
C26_ForwardedToFocusedOnly ==
    [][(upd_pc \in {"rotation", "button"}) =>
         (IF fired' = fired \/ focused_component = NoComponent
          THEN forwarded' = forwarded
          ELSE /\ Len(NewForwards) = 1
               /\ NewForwards[1].to = focused_component
               /\ NewForwards[1].method =
                    (IF upd_pc = "rotation" THEN "handle_encoder_rotation"
                     ELSE "handle_button_press"))]_vars

C26_Witness ==
    /\ Len(components) = 2
    /\ \E i \in 1..Len(forwarded) :
          forwarded[i].to = components[2] /\ forwarded[i].method = "handle_button_press"
    /\ \E i \in 1..Len(forwarded) : forwarded[i].method = "handle_encoder_rotation"

\* C27: Screen.draw calls draw() on exactly the components that are dirty or
\* focused, in the order of the collection.
C27_DrawsDirtyOrFocused ==
    [][n_draws' # n_draws =>
         drawn' = SelectSeq(components,
                            LAMBDA c : widgets[c].dirty \/ widgets[c].focused)]_vars

C27_Witness ==
    n_draws > 0 /\ drawn # <<>> /\ Len(drawn) < Len(after_draw.components)

\* C28: every Screen.update calls draw() on the focused component.
C28_FocusedDrawnEveryTick ==
    [][(redrawn' # redrawn /\ focused_component' # NoComponent) =>
         (n_draws' # n_draws /\ focused_component' \in Uids(drawn'))]_vars

\* C29 as stated: a Screen.draw that begins in the state the previous one
\* left calls draw() on the same components and changes nothing.
C29_SecondDrawSameDraws ==
    [][(n_draws' # n_draws /\ Repeated) =>
         (drawn' = drawn /\ widgets' = widgets /\ display' = display)]_vars

\* C29: a Screen.draw leaves no component of the collection dirty; one that
\* begins in the state the previous one left calls draw() on the focused
\* components only, all of which the previous one drew, and changes neither
\* the display nor any field of a component.
C29_SecondDrawSameOutput ==
    [][n_draws' # n_draws =>
         /\ \A c \in Uids(components) : ~widgets'[c].dirty
         /\ Repeated =>
              /\ drawn' = SelectSeq(components, LAMBDA c : widgets[c].focused)
              /\ Uids(drawn') \subseteq Uids(drawn)
              /\ widgets' = widgets
              /\ display' = display]_vars

C29_Witness ==
    /\ repeats > 0 /\ after_draw = Snapshot(Shell)
    /\ \E c \in Uids(drawn) :
          widgets[c].kind = "TextInput" /\ widgets[c].cursor_blink_time > 0
    /\ \E c \in Uids(drawn) : widgets[c].kind = "Button"

\* C30: update() never waits for time to pass.
C30_UpdateNeverWaits == slept = 0

\* C31: the counter is changed only by encoder_handler, by +1 or -1 on an edge
\* of phase A, and by get_rotation, to 0: the button handlers, get_button,
\* get_events, the registrations of the Screen constructor and the Screen
\* operations other than the get_rotation of the poll leave it as it is.
C31_CounterFrame ==
    [][counter' # counter =>
         \/ pin_a' # pin_a /\ counter' - counter \in {1, -1}
         \/ gr_pc = "reset" /\ gr_pc' = "idle" /\ counter' = 0]_vars

\* C31 witness: steps were counted, returned by a poll and counted again, with
\* a draw, a user-button edge and an accepted encoder-button press on the way.
C31_Witness ==
    /\ counter # 0 /\ returned # 0
    /\ n_draws > 0 /\ button_pressed /\ press_events # <<>>

\* The buttons that have been pressed so far
Pressed == {b \in Buttons : last_start[b].id # 0}

\* How often id x occurs in the sequence of ids
Times(ids, x) == Cardinality({i \in 1..Len(ids) : ids[i] = x})

\* The press_end entries of the log that were paired with the press_start s
EndsOf(s) == {i \in 1..Len(press_events) :
                IsEnd(press_events[i]) /\ press_events[i].src = s}

\* C32: while one button alone is pressed and released (each press released
\* before the next), no completed press is lost or doubled: outside get_events,
\* the press_end of every released press (the edge after its press_start) has
\* been returned by exactly one get_events, or is in the log once and not yet
\* returned; this however many presses were completed before and however many
\* pairs, up to 5, complete between two get_events calls.
C32_EveryPairYieldsOneEvent ==
    (ge_pc = "idle" /\ Cardinality(Pressed) = 1) =>
        \A s \in matched :
            Cardinality(EndsOf(s)) + Times(delivered, s + 1) = 1

\* The handler of a button ran again for a rising edge, the pin level as before
RisesAgain == pin_btn' = pin_btn /\ n_edges' = n_edges + 1

\* C33: each press_start is matched by at most one release: a rising edge of b
\* that follows a recorded press/release pair of b with no falling edge of b
\* in between records no press_end, also once get_events has returned the
\* pair's press_end.  (A press_end such an edge records is b's: it is the new
\* head of the log.)
C33_OneReleasePerPress ==
    [][(RisesAgain /\ press_events' # press_events) =>
         last_start[Head(press_events').name].id \notin matched]_vars

\* RotaryEncoder.button_handler runs for a falling edge of the encoder button
Handles == enc_seen' # enc_seen

\* C34: the two debounce tests do not interfere.  A press of the encoder
\* button handled more than 200 ms after the previous accepted press (after
\* construction, for the first) sets button_pressed, whatever phase-A edges
\* came in between; a phase-A edge is ignored only when it comes less than
\* 2 ms after the previous accepted phase-A edge (after construction, for the
\* first), never because of a button press.
C34_DebouncesIndependent ==
    [][/\ (Handles /\ ticks_diff(now, gb.press_t) > BUTTON_DEBOUNCE_MS)
            => button_pressed'
       /\ IgnoredEdge => ticks_diff(now', edge_t) < ENCODER_DEBOUNCE_MS]_vars

\* C35: a press of the encoder button held for 2000 ms or longer invokes no
\* ('encoder', 'short') callback: when such a press is released, no update()
\* has called the short callback for it.
C35_LongHoldNeverShort ==
    [][(Rises("encoder")
          /\ ticks_diff(now', last_start["encoder"].t) >= LONG_PRESS_TIME) =>
         \A i \in 1..Len(fired) :
            ~(/\ fired[i].button = "encoder" /\ fired[i].kind = "short"
              /\ fired[i].src = last_start["encoder"].id)]_vars

\* C36: the shell's two notions of focus agree: once a component has been
\* added, self.focused_component is the component get_focused_component()
\* returns (the first component of the collection flagged focused), after any
\* add_component, set_focus and handle_user_button calls.
C36_FocusNotionsAgree ==
    (components # <<>> /\ AllComponents(Shell)) =>
        focused_component = GetFocusedComponent(Shell)

\* C37: whenever the shell holds a focused component, Screen.focus_counter is
\* that component's uid (so that focus_cycle computes its successor), whatever
\* uid the first added component has and after set_focus calls.
C37_CounterIsFocusedUid ==
    focused_component # NoComponent => focus_counter = focused_component

\* C38: add_component given a list adds the components of the list and
\* nothing else, whether or not a component is focused already: the
\* collection holds components only.
C38_CollectionHoldsComponents == AllComponents(Shell)

\* C39: get_button returns True exactly when button_handler accepted at least
\* one press since the previous get_button returned (since construction, for
\* the first call), and clears the flag: of the last call and of the one
\* before it, the value returned is True if and only if presses were accepted
\* in the time the call answers for, however many they were.
C39_GetButtonReportsOnce ==
    /\ gb.n > 0 => (gb.value <=> gb.covered > 0)
    /\ gb.n > 1 => (gb.prev.value <=> gb.prev.covered > 0)

\* C39 witness: two presses were accepted, one get_button returned True for
\* both and the next one, with no press in between, returned False.
C39_Witness ==
    /\ gb.pc = "idle" /\ gb.n = 2
    /\ gb.prev.value /\ gb.prev.covered = 2
    /\ ~gb.value /\ gb.covered = 0

\* C40: for a ListView with items and at least one visible row, after any
\* handle_encoder_rotation calls with positive step counts the selection is
\* an index of the list (it saturates at both ends), it lies in the window
\* of visible_items rows that begins at scroll_offset, and the last call set
\* dirty only if it changed the selection.
C40_SelectionInWindow ==
    (lv.made /\ lv.items > 0 /\ lv.visible_items > 0) =>
        /\ 0 <= lv.selected_index /\ lv.selected_index < lv.items
        /\ lv.scroll_offset <= lv.selected_index
        /\ lv.selected_index < lv.scroll_offset + lv.visible_items
        /\ (lv.calls > 0 /\ lv.dirty /\ ~lv.old_dirty) =>
              lv.selected_index # lv.old_selected

\* C40 witness: on a drawn list of 4 items with 2 rows, a call moved the
\* selection from item 2 to the last item, the window begins at 2, and the
\* call set dirty.
C40_Witness ==
    /\ lv.made /\ lv.items = 4 /\ lv.visible_items = 2
    /\ lv.calls > 1 /\ lv.selected_index = 3 /\ lv.old_selected = 2
    /\ lv.scroll_offset = 2 /\ lv.dirty /\ ~lv.old_dirty

====
